---- MODULE Spec2Model ----
(***************************************************************************)
(* Model of VQ2D/vq2d/baselines/feature_retrieval.py: the search-window    *)
(* selection shared by perform_retrieval and perform_cached_retrieval, the *)
(* batched inference loop of perform_retrieval and the cache lookup of     *)
(* perform_cached_retrieval.                                               *)
(*                                                                         *)
(* Floats.  recency_factor and subsampling_factor are held as numerators   *)
(* over FactorDen = 2^FactorBits.  Such dyadic factors and the products    *)
(* factor * len are exact in double precision, so round() and int() are    *)
(* modelled on exact rationals.  np.linspace is modelled on exact          *)
(* rationals as well (a value is a pair <<numerator, denominator>>); for   *)
(* stop <= 25 the double product i * (stop / (num - 1)) truncates to the   *)
(* same integer as the exact quotient.                                     *)
(*                                                                         *)
(* Python sequences are 0-based, TLA+ sequences 1-based: the element at    *)
(* Python position p of a list s is s[p + 1].                              *)
(***************************************************************************)
EXTENDS Integers, Sequences, FiniteSets, TLC

\* ---------------------------------------------------------------- bounds
MaxQueryFrame == 10
MaxBatch == 3
FactorBits == 2
FactorOver == 1

FactorDen == 2 ^ FactorBits
Factors == 0 .. (FactorDen + FactorOver)
One == FactorDen
Half == FactorDen \div 2

VARIABLES
    retriever,            \* "live" = perform_retrieval, "cached" = perform_cached_retrieval
    pc,                   \* position in the function body
    query_frame, batch_size, recency_factor, subsampling_factor, visualize,
    reference,
    search_window, window_size, idxs_to_sample,
    ret_bboxes, ret_scores, ret_imgs,
    i, i_end, j,
    bimages, breferences, image_scales,
    orig_image, all_outputs, instances,
    net_calls             \* spy on the model collaborator: the frames of each call

inputs == <<retriever, query_frame, batch_size, recency_factor, subsampling_factor, visualize>>
window == <<search_window, window_size, idxs_to_sample>>
results == <<ret_bboxes, ret_scores, ret_imgs>>
batch == <<i, i_end, j, bimages, breferences, image_scales, orig_image, all_outputs, instances>>
vars == <<inputs, pc, reference, window, results, batch, net_calls>>

\* A Python name that is not bound, and a name bound to v.
Unbound == <<>>
Bind(v) == <<v>>
Value(b) == b[1]

Min(a, b) == IF a < b THEN a ELSE b
Max(a, b) == IF a > b THEN a ELSE b

\* ------------------------------------------------------ pure functions
\* list(range(0, query_frame))
BaseWindowOffByOne(q) == [p \in 1 .. (q + 1) |-> p - 1]
BaseWindow(q) == [p \in 1 .. q |-> p - 1]

\* Python round(num / den) for num >= 0: nearest integer, ties to even.
PyRoundHalfUp(num, den) == (2 * num + den) \div (2 * den)
PyRound(num, den) ==
    LET fl == num \div den
        rem == num % den
    IN  IF 2 * rem < den THEN fl
        ELSE IF 2 * rem > den THEN fl + 1
        ELSE IF fl % 2 = 0 THEN fl ELSE fl + 1

\* Python s[-k:] for k >= 0 (s[-0:] is s[0:], the whole list).
SliceLastDropsOne(s, k) ==
    LET start == IF k = 0 THEN 0 ELSE Max(Len(s) - k, 0)
    IN  SubSeq(s, start + 2, Len(s))
SliceLast(s, k) ==
    LET start == IF k = 0 THEN 0 ELSE Max(Len(s) - k, 0)
    IN  SubSeq(s, start + 1, Len(s))

\* int(round(len(search_window) * recency_factor))
RecencyCount(sw, rf) == PyRound(Len(sw) * rf, FactorDen)

\* Lines 55-57: keep the last RecencyCount elements unless that slice is empty.
RecencyStep(sw, rf) ==
    LET sl == SliceLast(sw, RecencyCount(sw, rf))
    IN  IF Len(sl) > 0 THEN sl ELSE sw

\* int(subsampling_factor * window_size)
SampleCount(sf, w) == (sf * w) \div FactorDen

\* np.linspace(0, stop, num): num points start + k*step, the last set to stop.
LinspaceNoEndpoint(stop, num) ==
    [k \in 1 .. num |-> <<(k - 1) * stop, Max(num, 1)>>]
Linspace(stop, num) ==
    [k \in 1 .. num |->
        IF num > 1 /\ k = num THEN <<stop, 1>>
        ELSE <<(k - 1) * stop, Max(num - 1, 1)>>]

\* .astype(int) on a non-negative value: truncation toward zero.
AsTypeIntNearest(y) == (2 * y[1] + y[2]) \div (2 * y[2])
AsTypeInt(y) == y[1] \div y[2]

\* np.linspace(0, window_size - 1, int(subsampling_factor * window_size)).astype(int)
IdxsToSample(w, sf) ==
    LET ys == Linspace(w - 1, SampleCount(sf, w))
    IN  [k \in 1 .. Len(ys) |-> AsTypeInt(ys[k])]

\* Lines 63-64: index the window by the sampled positions unless there are none.
SubsampleKeepsEmpty(sw, idxs) == [k \in 1 .. Len(idxs) |-> sw[idxs[k] + 1]]
Subsample(sw, idxs) ==
    IF Len(idxs) > 0 THEN [k \in 1 .. Len(idxs) |-> sw[idxs[k] + 1]] ELSE sw

\* ------------------------------------------------------- collaborators
\* video_reader[s]: the original frame at index s.
VideoReader(s) == [fno |-> s, kind |-> "orig"]
\* cv2.resize(image, None, fx=image_scale, fy=image_scale)
Downscale(img) == [fno |-> img.fno, kind |-> "scaled"]
ImageScale(img) == [scale_of |-> img.fno]

\* The detection model: one output per (image, reference) pair; the number
\* of instances depends on the frame only.
NumInstances(img) == 1 + (img.fno % 2)
Net(imgs, refs) ==
    [k \in 1 .. Len(imgs) |->
        [instances |->
            [pred_boxes |-> [d \in 1 .. NumInstances(imgs[k]) |-> <<imgs[k].fno, d>>],
             scores |-> [d \in 1 .. NumInstances(imgs[k]) |-> <<"score", imgs[k].fno, d>>]]]]

\* Caller-provided cache, indexed by absolute frame number.
CachedBBoxes == [s \in 0 .. MaxQueryFrame |-> <<"bboxes", s>>]
CachedScores == [s \in 0 .. MaxQueryFrame |-> <<"scores", s>>]

\* BBox(search_window[j], *bbox) for the rescaled boxes of one frame.
BBoxes(fno, inst, scale) ==
    [d \in 1 .. Len(inst.pred_boxes) |->
        [frame_number |-> fno, box |-> inst.pred_boxes[d], scale |-> scale]]

\* Lines 87-88: the raw-frame list after one frame was read.
RetImgsKeepsScaled(imgs, orig, image, vis) == IF vis THEN Append(imgs, image) ELSE imgs
RetImgsAfterRead(imgs, orig, image, vis) == IF vis THEN Append(imgs, orig) ELSE imgs

\* Line 75: i_end = min(i + batch_size, len(search_window))
IEndShort(ii, bs, n) == Min(ii + bs - 1, n)
IEnd(ii, bs, n) == Min(ii + bs, n)

\* Line 104: del all_outputs
DelKeepsOutputs(o) == o
Del(o) == Unbound

\* Lines 162-163: [cache[s] for s in search_window]
GatherByPosition(sw, cache) == [k \in 1 .. Len(sw) |-> cache[k - 1]]
Gather(sw, cache) == [k \in 1 .. Len(sw) |-> cache[sw[k]]]

\* Line 164: [video_reader[s].copy() for s in search_window] if visualize else []
CopyFrames(sw, vis) == IF vis THEN [k \in 1 .. Len(sw) |-> VideoReader(sw[k])] ELSE <<>>

\* ---------------------------------------------------------------- state
Init ==
    /\ retriever \in {"live", "cached"}
    /\ query_frame \in 0 .. MaxQueryFrame
    /\ batch_size \in 1 .. MaxBatch
    /\ recency_factor \in Factors
    /\ subsampling_factor \in Factors
    /\ visualize \in BOOLEAN
    /\ pc = "prepare"
    /\ reference = Unbound
    /\ search_window = <<>>
    /\ window_size = 0
    /\ idxs_to_sample = <<>>
    /\ ret_bboxes = <<>>
    /\ ret_scores = <<>>
    /\ ret_imgs = <<>>
    /\ i = 0
    /\ i_end = 0
    /\ j = 0
    /\ bimages = <<>>
    /\ breferences = <<>>
    /\ image_scales = <<>>
    /\ orig_image = Unbound
    /\ all_outputs = Unbound
    /\ instances = Unbound
    /\ net_calls = <<>>

\* Lines 28-51 / 123-146: prepare the reference crop (the model is read for
\* its configuration only, never called).
PrepareReference ==
    /\ pc = "prepare"
    /\ reference' = Bind("reference")
    /\ pc' = "base"
    /\ UNCHANGED <<inputs, window, results, batch, net_calls>>

\* Line 53 / 148.
DefineWindow ==
    /\ pc = "base"
    /\ search_window' = BaseWindow(query_frame)
    /\ pc' = "recency"
    /\ UNCHANGED <<inputs, reference, window_size, idxs_to_sample, results, batch, net_calls>>

\* Lines 55-57 / 150-152.
PickRecent ==
    /\ pc = "recency"
    /\ window_size' = RecencyCount(search_window, recency_factor)
    /\ search_window' = RecencyStep(search_window, recency_factor)
    /\ pc' = "subsample"
    /\ UNCHANGED <<inputs, reference, idxs_to_sample, results, batch, net_calls>>

\* Lines 59-64 / 154-159.
SubsampleWindow ==
    /\ pc = "subsample"
    /\ window_size' = Len(search_window)
    /\ idxs_to_sample' = IdxsToSample(Len(search_window), subsampling_factor)
    /\ search_window' = Subsample(search_window, idxs_to_sample')
    /\ pc' = IF retriever = "live" THEN "loop" ELSE "gather"
    /\ UNCHANGED <<inputs, reference, results, batch, net_calls>>

\* Lines 71-75: the next batch starts; the batch lists are rebound.
BatchBegin ==
    /\ pc = "loop"
    /\ i < Len(search_window)
    /\ bimages' = <<>>
    /\ breferences' = <<>>
    /\ image_scales' = <<>>
    /\ i_end' = IEnd(i, batch_size, Len(search_window))
    /\ j' = i
    /\ pc' = "read"
    /\ UNCHANGED <<inputs, reference, window, results, i, orig_image, all_outputs, instances, net_calls>>

\* Lines 76-89: one iteration of the frame-reading loop.
ReadFrame ==
    /\ pc = "read"
    /\ j < i_end
    /\ LET orig == VideoReader(search_window[j + 1])
           image == Downscale(orig)
       IN  /\ orig_image' = Bind(orig)
           /\ bimages' = Append(bimages, image)
           /\ breferences' = Append(breferences, Value(reference))
           /\ ret_imgs' = RetImgsAfterRead(ret_imgs, orig, image, visualize)
           /\ image_scales' = Append(image_scales, ImageScale(orig))
    /\ j' = j + 1
    /\ UNCHANGED <<inputs, pc, reference, window, ret_bboxes, ret_scores, i, i_end,
                   all_outputs, instances, net_calls>>

\* Line 91: one model call for the batch.
Infer ==
    /\ pc = "read"
    /\ j >= i_end
    /\ all_outputs' = Bind(Net(bimages, breferences))
    /\ net_calls' = Append(net_calls, [k \in 1 .. Len(bimages) |-> bimages[k].fno])
    /\ j' = i
    /\ pc' = "unpack"
    /\ UNCHANGED <<inputs, reference, window, results, i, i_end, bimages, breferences,
                   image_scales, orig_image, instances>>

\* Lines 93-103: one iteration of the unpacking loop.
Unpack ==
    /\ pc = "unpack"
    /\ j < i_end
    /\ LET inst == Value(all_outputs)[j - i + 1].instances
           image_scale == image_scales[j - i + 1]
       IN  /\ instances' = Bind(inst)
           /\ ret_bboxes' = Append(ret_bboxes, BBoxes(search_window[j + 1], inst, image_scale))
           /\ ret_scores' = Append(ret_scores, inst.scores)
    /\ j' = j + 1
    /\ UNCHANGED <<inputs, pc, reference, window, ret_imgs, i, i_end, bimages, breferences,
                   image_scales, orig_image, all_outputs, net_calls>>

\* Line 104, and the step of range(0, len(search_window), batch_size).
DelOutputs ==
    /\ pc = "unpack"
    /\ j >= i_end
    /\ all_outputs' = Del(all_outputs)
    /\ i' = i + batch_size
    /\ pc' = "loop"
    /\ UNCHANGED <<inputs, reference, window, results, i_end, j, bimages, breferences,
                   image_scales, orig_image, instances, net_calls>>

\* Line 105.
Return ==
    /\ pc = "loop"
    /\ i >= Len(search_window)
    /\ pc' = "done"
    /\ UNCHANGED <<inputs, reference, window, results, batch, net_calls>>

\* Lines 162-165 of perform_cached_retrieval.
GatherCached ==
    /\ pc = "gather"
    /\ ret_bboxes' = Gather(search_window, CachedBBoxes)
    /\ ret_scores' = Gather(search_window, CachedScores)
    /\ ret_imgs' = CopyFrames(search_window, visualize)
    /\ pc' = "done"
    /\ UNCHANGED <<inputs, reference, window, batch, net_calls>>

Next ==
    \/ PrepareReference
    \/ DefineWindow
    \/ PickRecent
    \/ SubsampleWindow
    \/ BatchBegin
    \/ ReadFrame
    \/ Infer
    \/ Unpack
    \/ DelOutputs
    \/ Return
    \/ GatherCached

Spec == Init /\ [][Next]_vars

TypeOK ==
    /\ pc \in {"prepare", "base", "recency", "subsample", "loop", "read", "unpack", "gather", "done"}
    /\ Len(bimages) = Len(breferences)
    /\ Len(bimages) = Len(image_scales)

\* ------------------------------------------------------------ properties
\* The search window is final once the subsampling step has run.
WindowFinal == pc \in {"loop", "read", "unpack", "gather", "done"}

Abs(x) == IF x < 0 THEN -x ELSE x
\* k is num/den rounded to the nearest integer, ties to the even integer.
IsRoundOf(k, num, den) ==
    /\ 2 * Abs(k * den - num) <= den
    /\ (2 * Abs(k * den - num) = den) => (k % 2 = 0)
\* p is the floor of num/den.
IsFloorOf(p, num, den) == p * den <= num /\ num < (p + 1) * den
\* p is the i-th (from 0) of n evenly spaced points over [0, w-1], truncated / rounded to nearest.
TruncPoint(p, ii, w, n) == IF n = 1 THEN p = 0 ELSE IsFloorOf(p, ii * (w - 1), n - 1)
NearestPoint(p, ii, w, n) == IF n = 1 THEN p = 0 ELSE 2 * Abs(p * (n - 1) - ii * (w - 1)) <= n - 1
MaxCount == ((MaxQueryFrame + 1) * (FactorDen + FactorOver + 1)) \div FactorDen + 1

\* C1: with recency_factor = 1.0 and subsampling_factor = 1.0 and query_frame > 0,
\* the search window of either retriever is exactly 0, 1, ..., query_frame-1.
C1_DefaultWindow ==
    (WindowFinal /\ query_frame > 0 /\ recency_factor = One /\ subsampling_factor = One)
        => /\ Len(search_window) = query_frame
           /\ \A p \in 1 .. query_frame : search_window[p] = p - 1
C1_Witness ==
    /\ pc = "done" /\ retriever = "live" /\ query_frame >= 5
    /\ recency_factor = One /\ subsampling_factor = One
    /\ Len(search_window) = query_frame

\* C2: after the recency step, with k = round(query_frame * recency_factor)
\* (ties to even): if 1 <= k <= query_frame the window is the last k indices
\* query_frame-k .. query_frame-1; if k >= query_frame it is the whole base window.
C2_RecencyStep ==
    (pc = "subsample" /\ query_frame >= 1) =>
        \A k \in 0 .. MaxCount :
            IsRoundOf(k, query_frame * recency_factor, FactorDen) =>
                /\ (1 <= k /\ k <= query_frame) =>
                        /\ Len(search_window) = k
                        /\ \A p \in 1 .. k : search_window[p] = query_frame - k + p - 1
                /\ (k >= query_frame) =>
                        /\ Len(search_window) = query_frame
                        /\ \A p \in 1 .. query_frame : search_window[p] = p - 1
C2_Witness ==
    /\ pc = "subsample" /\ query_frame = 10 /\ recency_factor = Half
    /\ search_window = <<5, 6, 7, 8, 9>>

\* C3 (as stated): the subsampling step of a window of size W >= 1 with
\* subsampling_factor in (0, 1] and n = floor(subsampling_factor * W) >= 1 yields
\* n elements, the i-th being the window element at the i-th of n evenly spaced
\* points over [0, W-1] rounded to the nearest integer.
C3_RoundedToNearest ==
    [][(pc = "subsample" /\ Len(search_window) >= 1
            /\ subsampling_factor >= 1 /\ subsampling_factor <= One)
        => \A n \in 1 .. MaxCount :
            IsFloorOf(n, subsampling_factor * Len(search_window), FactorDen) =>
                /\ Len(search_window') = n
                /\ \A ii \in 0 .. (n - 1) : \E p \in 0 .. (Len(search_window) - 1) :
                        /\ NearestPoint(p, ii, Len(search_window), n)
                        /\ search_window'[ii + 1] = search_window[p + 1]]_vars

\* C3 (amended): as above, but the i-th point is truncated toward zero (the floor
\* of i * (W-1) / (n-1)), not rounded to the nearest integer.
C3_Truncated ==
    [][(pc = "subsample" /\ Len(search_window) >= 1
            /\ subsampling_factor >= 1 /\ subsampling_factor <= One)
        => \A n \in 1 .. MaxCount :
            IsFloorOf(n, subsampling_factor * Len(search_window), FactorDen) =>
                /\ Len(search_window') = n
                /\ \A ii \in 0 .. (n - 1) : \E p \in 0 .. (Len(search_window) - 1) :
                        /\ TruncPoint(p, ii, Len(search_window), n)
                        /\ search_window'[ii + 1] = search_window[p + 1]]_vars
C3_Witness ==
    /\ WindowFinal /\ window_size = 10 /\ subsampling_factor = Half
    /\ recency_factor = One
    /\ search_window = <<0, 2, 4, 6, 9>>

\* C4: for query_frame >= 1, a recency count of 0 leaves the full base window, a
\* sample count of 0 leaves the subsampling input unchanged, and neither step
\* turns a non-empty window into an empty one.
C4_DegenerateFactors ==
    [][/\ (pc = "recency" /\ query_frame >= 1
                /\ IsRoundOf(0, query_frame * recency_factor, FactorDen))
            => /\ Len(search_window') = query_frame
               /\ \A p \in 1 .. query_frame : search_window'[p] = p - 1
       /\ (pc = "subsample" /\ query_frame >= 1
                /\ IsFloorOf(0, subsampling_factor * Len(search_window), FactorDen))
            => search_window' = search_window
       /\ (pc \in {"recency", "subsample"} /\ Len(search_window) > 0)
            => Len(search_window') > 0]_vars
C4_Witness ==
    /\ WindowFinal /\ query_frame >= 3
    /\ recency_factor = 0 /\ subsampling_factor = 0
    /\ Len(search_window) = query_frame
C4_WitnessSmallCount ==
    /\ WindowFinal /\ query_frame >= 2 /\ recency_factor > 0 /\ subsampling_factor > 0
    /\ window_size = query_frame /\ idxs_to_sample = <<>>
    /\ Len(search_window) = query_frame

\* C5: for factors in [0, 1] the search window holds only indices in
\* [0, query_frame), is strictly increasing, and has at most query_frame elements.
C5_SearchWindowInvariant ==
    (WindowFinal /\ recency_factor <= One /\ subsampling_factor <= One) =>
        /\ \A p \in 1 .. Len(search_window) :
                search_window[p] >= 0 /\ search_window[p] < query_frame
        /\ \A p \in 1 .. (Len(search_window) - 1) : search_window[p] < search_window[p + 1]
        /\ Len(search_window) <= query_frame
C5_Witness ==
    /\ WindowFinal /\ recency_factor > 0 /\ recency_factor < One
    /\ subsampling_factor > 0 /\ subsampling_factor < One
    /\ Len(search_window) >= 3 /\ Len(search_window) < window_size
    /\ window_size < query_frame

\* C6: on return of either retriever the raw-frame list is empty when visualize
\* is False; when visualize is True it has one entry per search-window index, the
\* k-th being the original (non-downscaled) frame read at the k-th window index.
C6_RawFrames ==
    (pc = "done") =>
        /\ (~visualize) => ret_imgs = <<>>
        /\ visualize =>
            /\ Len(ret_imgs) = Len(search_window)
            /\ \A k \in 1 .. Len(search_window) :
                    ret_imgs[k].fno = search_window[k] /\ ret_imgs[k].kind = "orig"
C6_Witness ==
    /\ pc = "done" /\ retriever = "live" /\ visualize
    /\ batch_size = 2 /\ Len(search_window) >= 5
    /\ Len(ret_imgs) = Len(search_window)

\* C7: perform_cached_retrieval never calls the model, and its k-th bbox entry and
\* score entry are cached_bboxes[s] and cached_scores[s] for the k-th window index s.
C7_CachedNeverCallsModel ==
    (retriever = "cached") =>
        /\ net_calls = <<>>
        /\ (pc = "done") =>
            /\ Len(ret_bboxes) = Len(search_window)
            /\ Len(ret_scores) = Len(search_window)
            /\ \A k \in 1 .. Len(search_window) :
                    /\ ret_bboxes[k] = <<"bboxes", search_window[k]>>
                    /\ ret_scores[k] = <<"scores", search_window[k]>>
C7_Witness ==
    /\ retriever = "cached" /\ pc = "done"
    /\ Len(search_window) >= 2 /\ search_window[1] > 0
    /\ Len(ret_bboxes) = Len(search_window)

\* C8: in perform_retrieval every model call made so far is the next consecutive
\* slice of the window, of size batch_size except possibly a shorter non-empty
\* last one; on return there were ceil(n / batch_size) calls (none when n = 0),
\* every window index was submitted exactly once, and the bbox and score lists
\* have n entries, the k-th coming from the model output for the k-th window
\* index with every BBox tagged with that index.
C8_Batching ==
    (retriever = "live" /\ WindowFinal) =>
        LET n == Len(search_window)
            calls == Len(net_calls)
        IN  /\ \A c \in 1 .. calls :
                    /\ Len(net_calls[c]) >= 1
                    /\ Len(net_calls[c]) <= batch_size
                    /\ (c < calls \/ c * batch_size <= n) => Len(net_calls[c]) = batch_size
                    /\ \A m \in 1 .. Len(net_calls[c]) :
                            /\ (c - 1) * batch_size + m <= n
                            /\ net_calls[c][m] = search_window[(c - 1) * batch_size + m]
            /\ (pc = "done") =>
                    /\ calls * batch_size >= n
                    /\ (calls - 1) * batch_size < n \/ calls = 0
                    /\ (n = 0) => calls = 0
                    /\ \A p \in 1 .. n : \E c \in 1 .. calls : \E m \in 1 .. Len(net_calls[c]) :
                            (c - 1) * batch_size + m = p
                    /\ Len(ret_bboxes) = n
                    /\ Len(ret_scores) = n
                    /\ \A k \in 1 .. n :
                            /\ Len(ret_bboxes[k]) = Len(ret_scores[k])
                            /\ Len(ret_bboxes[k]) >= 1
                            /\ \A d \in 1 .. Len(ret_bboxes[k]) :
                                    /\ ret_bboxes[k][d].frame_number = search_window[k]
                                    /\ ret_bboxes[k][d].box = <<search_window[k], d>>
                                    /\ ret_bboxes[k][d].scale.scale_of = search_window[k]
                                    /\ ret_scores[k][d] = <<"score", search_window[k], d>>
C8_Witness ==
    /\ retriever = "live" /\ pc = "done" /\ batch_size = 3
    /\ Len(search_window) = 7 /\ Len(net_calls) = 3
    /\ Len(net_calls[3]) = 1 /\ Len(ret_bboxes) = 7

\* The video frames (by index) whose pixel data the call references.
FramesRetained ==
    {bimages[k].fno : k \in 1 .. Len(bimages)}
        \cup {orig_image[k].fno : k \in 1 .. Len(orig_image)}
        \cup {ret_imgs[k].fno : k \in 1 .. Len(ret_imgs)}
BetweenIterations == pc \in {"loop", "done"}

\* C9 (as stated): at every point of a live retrieval, for every setting of
\* visualize, at most batch_size video frames and one batch's model input are
\* retained, and the batch's model output is not held once its iteration ended.
C9_MemoryBoundAnyVisualize ==
    (retriever = "live") =>
        /\ Cardinality(FramesRetained) <= batch_size
        /\ Len(bimages) <= batch_size
        /\ Len(breferences) <= batch_size
        /\ BetweenIterations => all_outputs = Unbound

\* C9 (amended): the batch lists never exceed batch_size entries and the output
\* list is unbound between iterations for every setting of visualize (the name
\* instances still refers to the last frame's output); at most batch_size distinct
\* video frames are retained when visualize is False, whereas with visualize True
\* ret_imgs retains every original frame read so far.
C9_MemoryBound ==
    (retriever = "live") =>
        /\ Len(bimages) <= batch_size
        /\ Len(breferences) <= batch_size
        /\ Len(image_scales) <= batch_size
        /\ (~visualize) => Cardinality(FramesRetained) <= batch_size
        /\ visualize => /\ Len(ret_imgs) <= Len(search_window)
                        /\ \A k \in 1 .. Len(ret_imgs) : ret_imgs[k].fno = search_window[k]
                        /\ BetweenIterations => Len(ret_imgs) = Min(i, Len(search_window))
        /\ all_outputs # Unbound => Len(Value(all_outputs)) <= batch_size
        /\ BetweenIterations => all_outputs = Unbound
        /\ (BetweenIterations /\ i > 0) =>
                instances = Bind(Net(bimages, breferences)[Len(bimages)].instances)
C9_Witness ==
    /\ retriever = "live" /\ pc = "loop" /\ ~visualize
    /\ batch_size = 2 /\ i = 4 /\ Len(search_window) >= 6
    /\ Len(bimages) = 2 /\ all_outputs = Unbound

\* C10: in the subsampling step with sample count n = floor(subsampling_factor * W)
\* and n <= W: if n >= 2 the result starts with the first and ends with the last
\* index of the recency-filtered window, so query_frame-1 is searched; if n = 1 the
\* result is the single oldest index, and query_frame-1 is not searched unless W = 1.
C10_Endpoints ==
    [][(pc = "subsample" /\ Len(search_window) >= 1) =>
        LET w == Len(search_window)
        IN  \A n \in 1 .. w :
                IsFloorOf(n, subsampling_factor * w, FactorDen) =>
                    /\ (n >= 2) =>
                            /\ search_window'[1] = search_window[1]
                            /\ search_window'[Len(search_window')] = search_window[w]
                            /\ \E p \in 1 .. Len(search_window') :
                                    search_window'[p] = query_frame - 1
                    /\ (n = 1) =>
                            /\ search_window' = <<search_window[1]>>
                            /\ (w # 1) => \A p \in 1 .. Len(search_window') :
                                    search_window'[p] # query_frame - 1]_vars
C10_Witness ==
    /\ WindowFinal /\ window_size >= 6 /\ window_size < query_frame
    /\ Len(search_window) >= 2 /\ Len(search_window) < window_size
    /\ search_window[1] = query_frame - window_size
    /\ search_window[Len(search_window)] = query_frame - 1

====
